---- MODULE Spec2Model ----
(***************************************************************************)
(* Model of ml-dsa/src/algebra.rs: FieldElement (an element of GF(q) held  *)
(* in a u32) with its +, - and * operators, and Polynomial (256            *)
(* FieldElements) with its pointwise +, - and scalar *.                    *)
(*                                                                         *)
(* Machine integers are kept at their width.  A u32 is a little-endian     *)
(* sequence of 4 limbs and a u64 one of 8 limbs, each limb in 0..Base-1,   *)
(* so that values above 2^31 (the wrapped results of montgomery_mul) are   *)
(* represented exactly.  Every arithmetic primitive returns the wrapped    *)
(* value together with an overflow flag; whether an overflow panics or     *)
(* wraps is the build's choice (overflow-checks on or off), drawn in Init. *)
(***************************************************************************)
EXTENDS Integers, Sequences, FiniteSets, TLC

VARIABLES checks, a, b, c, op, lhs, rhs, out, fed, p, q, s, pout

vars == <<checks, a, b, c, op, lhs, rhs, out, fed, p, q, s, pout>>

----------------------------------------------------------------------------
(* Machine integers *)

Base == 2^8

U32Limbs == 32 \div 8

U64Limbs == 64 \div 8

\* The u32 whose value is n, for 0 <= n < 2^31.
U32(n) == << n % Base, (n \div Base) % Base, (n \div (Base^2)) % Base, n \div (Base^3) >>

\* u64::from(x) for a u32 x: zero extension.
U64From(x) == x \o << 0, 0, 0, 0 >>

\* x as u32 for a u64 x: truncation to the low 32 bits.
AsU32(x) == SubSeq(x, 1, U32Limbs)

\* x >> 32 for a u64 x.
Shr32(x) == SubSeq(x, U32Limbs + 1, U64Limbs) \o << 0, 0, 0, 0 >>

\* x > y for two unsigned integers of the same width, decided from the most
\* significant limb down.
RECURSIVE GreaterFrom(_, _, _)
GreaterFrom(x, y, i) ==
    IF i = 0 THEN FALSE
    ELSE IF x[i] > y[i] THEN TRUE
    ELSE IF x[i] < y[i] THEN FALSE
    ELSE GreaterFrom(x, y, i - 1)

GreaterThan(x, y) == GreaterFrom(x, y, Len(x))

\* x + y at the width of x: the wrapped sum and whether it overflowed.
RECURSIVE AddLimbs(_, _, _, _, _)
AddLimbs(x, y, i, cy, acc) ==
    IF i > Len(x) THEN [val |-> acc, ovf |-> cy > 0]
    ELSE LET t == x[i] + y[i] + cy
         IN  AddLimbs(x, y, i + 1, t \div Base, Append(acc, t % Base))

UAdd(x, y) == AddLimbs(x, y, 1, 0, << >>)

\* x - y at the width of x: the wrapped difference and whether it underflowed.
RECURSIVE SubLimbs(_, _, _, _, _)
SubLimbs(x, y, i, bw, acc) ==
    IF i > Len(x) THEN [val |-> acc, ovf |-> bw > 0]
    ELSE LET t == x[i] - y[i] - bw
         IN  SubLimbs(x, y, i + 1, IF t < 0 THEN 1 ELSE 0,
                      Append(acc, IF t < 0 THEN t + Base ELSE t))

USub(x, y) == SubLimbs(x, y, 1, 0, << >>)

\* x * y at the width of x: the wrapped product and whether it overflowed
\* (a non-zero limb of the full product above the width).
RECURSIVE ColSum(_, _, _, _, _)
ColSum(x, y, k, i, last) ==
    IF i > last THEN 0
    ELSE x[i] * y[k + 1 - i] + ColSum(x, y, k, i + 1, last)

RECURSIVE MulLimbs(_, _, _, _, _, _)
MulLimbs(x, y, k, cy, acc, high) ==
    LET n == Len(x)
    IN  IF k > 2 * n THEN [val |-> acc, ovf |-> high]
        ELSE LET lo == IF k > n THEN k + 1 - n ELSE 1
                 hi == IF k > n THEN n ELSE k
                 t  == ColSum(x, y, k, lo, hi) + cy
             IN  IF k > n
                 THEN MulLimbs(x, y, k + 1, t \div Base, acc, high \/ (t % Base # 0))
                 ELSE MulLimbs(x, y, k + 1, t \div Base, Append(acc, t % Base), high)

UMul(x, y) == MulLimbs(x, y, 1, 0, << >>, FALSE)

----------------------------------------------------------------------------
(* FieldElement *)

Q == 8380417

QINV == 58728449

QL == U32(Q)

Q64 == U64From(U32(Q))

QINV64 == U64From(U32(QINV))

Zero == U32(0)

NoValue == <<>>

Step(name, r) == [name |-> name, ovf |-> r.ovf]

Pure(name) == [name |-> name, ovf |-> FALSE]

\* fn small_reduce(x: u32) -> u32
small_reduce(x) ==
    LET mask == IF GreaterThan(x, QL) THEN 1 ELSE 0
        mq   == UMul(U32(mask), QL)
        d    == USub(x, mq.val)
    IN  [val |-> d.val,
         arg |-> x,
         ops |-> << Pure("cmp"), Pure("cast"), Step("mul32", mq), Step("sub32", d) >>]

\* fn montgomery_mul(a: Self, b: Self) -> Self
montgomery_mul(x, y) ==
    LET ab == UMul(U64From(x), U64From(y))
        tw == UMul(U64From(AsU32(ab.val)), QINV64)
        t  == AsU32(tw.val)
        tq == UMul(U64From(t), Q64)
        d  == USub(ab.val, tq.val)
        r  == Shr32(d.val)
        sr == small_reduce(AsU32(r))
    IN  [val |-> sr.val,
         arg |-> sr.arg,
         ops |-> << Step("mul64", ab), Pure("cast"), Step("mul64", tw), Pure("cast"),
                    Step("mul64", tq), Step("sub64", d), Pure("shr"), Pure("cast") >>
                 \o sr.ops]

\* fn add(self, rhs: Self) -> Self
add(x, y) ==
    LET sm == UAdd(x, y)
        sr == small_reduce(sm.val)
    IN  [val |-> sr.val, arg |-> sr.arg, ops |-> << Step("add32", sm) >> \o sr.ops]

\* sub without the guard: self.0 - rhs.0 is reduced directly.
sub_unguarded(x, y) ==
    LET d  == USub(x, y)
        sr == small_reduce(d.val)
    IN  [val |-> sr.val, arg |-> sr.arg,
         ops |-> << Step("sub32", d) >> \o sr.ops]

\* fn sub(self, rhs: Self) -> Self
sub(x, y) ==
    LET sm == UAdd(x, QL)
        d  == USub(sm.val, y)
        sr == small_reduce(d.val)
    IN  [val |-> sr.val, arg |-> sr.arg,
         ops |-> << Step("add32", sm), Step("sub32", d) >> \o sr.ops]

\* fn mul(self, rhs: FieldElement) -> FieldElement
mul(x, y) == montgomery_mul(x, y)

----------------------------------------------------------------------------
(* What a build makes of a call *)

\* Index of the first primitive of ops that overflows, 0 when none does.
FirstOverflow(ops) ==
    LET f[i \in 0..Len(ops)] ==
            IF i = 0 THEN 0
            ELSE IF f[i-1] # 0 THEN f[i-1]
            ELSE IF ops[i].ovf THEN i ELSE 0
    IN  f[Len(ops)]

\* The outcome of a call r under a build: with overflow checks the first
\* overflowing primitive panics and nothing after it runs; without them every
\* primitive wraps and the call returns.
Outcome(chk, r) ==
    LET k      == FirstOverflow(r.ops)
        panics == chk /\ k # 0
        reduce == Len(r.ops) - 3
    IN  [panic   |-> panics,
         wrapped |-> ~chk /\ k # 0,
         val     |-> IF panics THEN NoValue ELSE r.val,
         arg     |-> IF panics /\ k < reduce THEN NoValue ELSE r.arg,
         steps   |-> IF panics
                     THEN [i \in 1..k |-> r.ops[i].name] \o << "panic" >>
                     ELSE [i \in 1..Len(r.ops) |-> r.ops[i].name]]

Call(name, x, y) ==
    CASE name = "add" -> add(x, y)
      [] name = "sub" -> sub(x, y)
      [] name = "mul" -> mul(x, y)

----------------------------------------------------------------------------
(* Inputs *)

Edge == 2

\* Canonical values next to both ends of [0, Q), and two inside it.
Samples == (0..Edge) \cup ((Q - 1 - Edge)..(Q - 1)) \cup {5, 2^16}

NoCall == [op |-> "none", lhs |-> NoValue, rhs |-> NoValue, out |-> NoValue]

NoOutcome == [panic |-> FALSE, wrapped |-> FALSE, val |-> NoValue, arg |-> NoValue,
              steps |-> << >>]

----------------------------------------------------------------------------
(* FieldElement operations *)

Init ==
    /\ checks \in BOOLEAN
    /\ a \in {U32(n) : n \in Samples}
    /\ b \in {U32(n) : n \in Samples}
    /\ c \in {U32(n) : n \in Samples}
    /\ op = "none"
    /\ lhs = NoValue
    /\ rhs = NoValue
    /\ out = NoOutcome
    /\ fed = NoCall
    /\ p = << >>
    /\ q = << >>
    /\ s = NoValue
    /\ pout = NoOutcome

\* The operand pairs a caller holding a, b, c can pass: fresh inputs first,
\* then the value the previous call returned, exactly as returned.
Operands ==
    IF op = "none"
    THEN { <<a, b>>, <<b, c>>, <<Zero, b>> }
    ELSE { <<out.val, c>>, <<a, out.val>> }

CanCall == ~out.panic /\ fed = NoCall

\* The caller passes x and y to the operator name and keeps what it returns.
Called(name, x, y) ==
    /\ op' = name
    /\ lhs' = x
    /\ rhs' = y
    /\ out' = Outcome(checks, Call(name, x, y))
    /\ fed' = IF op = "none" THEN fed
              ELSE [op |-> op, lhs |-> lhs, rhs |-> rhs, out |-> out.val]
    /\ UNCHANGED <<checks, a, b, c, p, q, s, pout>>

FieldAdd ==
    /\ CanCall
    /\ \E pr \in Operands : Called("add", pr[1], pr[2])

FieldSub ==
    /\ CanCall
    /\ \E pr \in Operands : Called("sub", pr[1], pr[2])

FieldMul ==
    /\ CanCall
    /\ \E pr \in Operands : Called("mul", pr[1], pr[2])

Next == FieldAdd \/ FieldSub \/ FieldMul

Spec == Init /\ [][Next]_vars

----------------------------------------------------------------------------
(* Polynomial *)

N == 256

\* self.0.iter().zip(rhs.0.iter()): pairs up to the shorter operand.
zip(xs, ys) ==
    [i \in 1..(IF Len(xs) < Len(ys) THEN Len(xs) ELSE Len(ys)) |-> <<xs[i], ys[i]>>]
        \o << >>

\* .map(f).collect(): the closure runs on the items in order; a panic in one
\* call unwinds out of the whole operation and no later item is visited,
\* otherwise the results are collected in order.
collect(chk, name, items) ==
    LET outs   == [i \in 1..Len(items) |->
                      Outcome(chk, Call(name, items[i][1], items[i][2]))] \o << >>
        bad    == {i \in 1..Len(items) : outs[i].panic}
        k      == IF bad = {} THEN Len(items)
                  ELSE CHOOSE i \in bad : \A j \in bad : i <= j
    IN  [panic   |-> bad # {},
         wrapped |-> \E i \in 1..k : outs[i].wrapped,
         val     |-> IF bad # {} THEN NoValue ELSE [i \in 1..k |-> outs[i].val],
         arg     |-> NoValue,
         steps   |-> [i \in 1..k |-> outs[i].steps]]

\* impl Add<&Polynomial> for &Polynomial
Polynomial_add(chk, x, y) == collect(chk, "add", zip(x, y))

\* impl Sub<&Polynomial> for &Polynomial
Polynomial_sub(chk, x, y) == collect(chk, "sub", zip(x, y))

\* impl Mul<&Polynomial> for FieldElement
Polynomial_mul(chk, k, y) == collect(chk, "mul", [i \in 1..Len(y) |-> <<k, y[i]>>])

\* The polynomial whose coefficients repeat the pattern pat.
Poly(pat) == [i \in 1..N |-> U32(pat[((i - 1) % Len(pat)) + 1])]

Patterns == { <<0>>, <<2^16, 0>>, <<Q - 1, 1, 5>>, <<1, Q - 1, Q - 3, 2>> }

Scalars == {0, 2^16, Q - 1}

InitPoly ==
    /\ checks \in BOOLEAN
    /\ p \in {Poly(pat) : pat \in Patterns}
    /\ q \in {Poly(pat) : pat \in Patterns}
    /\ s \in {U32(n) : n \in Scalars}
    /\ a = Zero
    /\ b = Zero
    /\ c = Zero
    /\ op = "none"
    /\ lhs = NoValue
    /\ rhs = NoValue
    /\ out = NoOutcome
    /\ fed = NoCall
    /\ pout = NoOutcome

PolyAdd ==
    /\ op = "none"
    /\ op' = "padd"
    /\ pout' = Polynomial_add(checks, p, q)
    /\ UNCHANGED <<checks, a, b, c, lhs, rhs, out, fed, p, q, s>>

PolySub ==
    /\ op = "none"
    /\ op' = "psub"
    /\ pout' = Polynomial_sub(checks, p, q)
    /\ UNCHANGED <<checks, a, b, c, lhs, rhs, out, fed, p, q, s>>

PolyScalarMul ==
    /\ op = "none"
    /\ op' = "pmul"
    /\ pout' = Polynomial_mul(checks, s, p)
    /\ UNCHANGED <<checks, a, b, c, lhs, rhs, out, fed, p, q, s>>

NextPoly == PolyAdd \/ PolySub \/ PolyScalarMul

SpecPoly == InitPoly /\ [][NextPoly]_vars

----------------------------------------------------------------------------
(* Properties *)

FieldOps == {"add", "sub", "mul"}

\* x lies in [0, Q): canonical form.
Canonical(x) == x # NoValue /\ GreaterThan(QL, x)

\* The integer a canonical u32 stands for.
Value(x) == x[1] + x[2] * Base + x[3] * Base^2 + x[4] * Base^3

\* (x * y) mod Q for integers 0 <= x, y < Q, by doubling.
RECURSIVE reference_mul(_, _)
reference_mul(x, y) ==
    IF y = 0 THEN 0
    ELSE (2 * reference_mul(x, y \div 2) + (y % 2) * x) % Q

\* A FieldElement operator has acted on two canonical operands.
CanonicalCall == op \in FieldOps /\ Canonical(lhs) /\ Canonical(rhs)

\* C1: for canonical a, b each of a + b, a - b and a * b returns a
\* FieldElement whose value lies in [0, Q).
C1_Closure == CanonicalCall => (~out.panic /\ Canonical(out.val))

\* C2: for canonical a, b the product a * b equals (a*b) mod Q computed by
\* plain multiply and remainder.
C2_MulMatchesReference ==
    (CanonicalCall /\ op = "mul") =>
        (~out.panic /\ out.val = U32(reference_mul(Value(lhs), Value(rhs))))

\* C3: for canonical a, b the sum a + b equals (a + b) mod Q, also when the
\* integer sum is exactly Q or wraps once.
C3_AddIsModular ==
    (CanonicalCall /\ op = "add") =>
        (~out.panic /\ out.val = U32((Value(lhs) + Value(rhs)) % Q))

\* C4: for canonical a, b the difference a - b equals (a - b) mod Q in
\* [0, Q), also for a = b, and its intermediate a + Q - b never underflows.
C4_SubIsModular ==
    (CanonicalCall /\ op = "sub") =>
        /\ ~out.panic /\ ~out.wrapped
        /\ out.val = U32((Value(lhs) + Q - Value(rhs)) % Q)

\* C5: for canonical a, b no intermediate value of Add, Sub or Mul leaves the
\* range of its integer type: no operation panics on overflow or wraps.
C5_NoOverflow == CanonicalCall => (~out.panic /\ ~out.wrapped)

\* What calling name on x and y gives: a value, or a panic, also when an
\* operand is missing because the call that was to return it panicked.
Fed(name, x, y) ==
    IF x = NoValue \/ y = NoValue
    THEN [panic |-> TRUE, val |-> NoValue]
    ELSE LET o == Outcome(checks, Call(name, x, y))
         IN  [panic |-> o.panic, val |-> o.val]

\* C6: Add and Mul are commutative and associative over canonical a, b, c,
\* the intermediate results being fed back exactly as returned: a op b is
\* what b op a is, and (a op b) op c is what a op (b op c) is.
C6_CommutativeAssociative ==
    /\ (CanonicalCall /\ op \in {"add", "mul"}) =>
           [panic |-> out.panic, val |-> out.val] = Fed(op, rhs, lhs)
    /\ (/\ op \in {"add", "mul"}
        /\ fed.op = op /\ fed.lhs = a /\ fed.rhs = b
        /\ lhs = fed.out /\ rhs = c) =>
           [panic |-> out.panic, val |-> out.val] = Fed(op, a, Fed(op, b, c).val)

\* The state after Add(a, Sub(0, b)), Add having taken what Sub returned.
AddOfNegation ==
    /\ op = "add" /\ lhs = a /\ rhs = fed.out
    /\ fed.op = "sub" /\ fed.lhs = Zero /\ fed.rhs = b

\* C7: for canonical a, b the difference a - b equals a + (0 - b), the inner
\* result being passed to Add exactly as Sub returned it.
C7_SubIsAddOfNegation ==
    AddOfNegation =>
        LET d == Outcome(checks, sub(a, b))
        IN  ~d.panic /\ ~out.panic /\ out.val = d.val

\* C7 witness: Add has taken Sub(0, 0), which Sub returned as Q.
C7_Witness == AddOfNegation /\ rhs = QL /\ ~out.panic

\* The coefficient r is what the FieldElement operator name returns on x
\* and y.
Coefficient(name, r, x, y) ==
    LET e == Outcome(checks, Call(name, x, y))
    IN  ~e.panic /\ r = e.val

\* C8: the results of &p + &q, &p - &q and s * &p have exactly 256
\* coefficients, the i-th being p[i] + q[i], p[i] - q[i] and s * p[i]; the
\* operands are left unchanged.
C8_Pointwise ==
    [][ /\ p' = p /\ q' = q /\ s' = s
        /\ ~pout'.panic
        /\ Len(pout'.val) = N
        /\ op' = "padd" =>
             \A i \in 1..N : Coefficient("add", pout'.val[i], p[i], q[i])
        /\ op' = "psub" =>
             \A i \in 1..N : Coefficient("sub", pout'.val[i], p[i], q[i])
        /\ op' = "pmul" =>
             \A i \in 1..N : Coefficient("mul", pout'.val[i], s, p[i]) ]_vars

\* C9: every operation executes the same fixed sequence of primitive steps
\* for every pair of input values: a run on any operands takes the steps of
\* the run on (0, 0).
C9_FixedSteps ==
    op \in FieldOps => out.steps = Outcome(checks, Call(op, Zero, Zero)).steps

\* C10: for canonical a, b the argument passed to small_reduce is in [0, 2Q)
\* at every call site.
C10_ReducePrecondition ==
    (CanonicalCall /\ out.arg # NoValue) => GreaterThan(U32(2 * Q), out.arg)

====
